---- MODULE Spec2Model ----
(***************************************************************************)
(* Mailbox-monitoring engine of SbisNotifyCalls (src/email_reader.py):     *)
(* EmailReader's session handle and watermark, one poll cycle              *)
(* (check_new_emails) cut at its mail-server calls, and the monitoring     *)
(* loop (run_email_monitoring) that dispatches each poll's result to the   *)
(* handler.  The mail server, the wall clock and the handler are the       *)
(* environment: every server call draws its outcome from the outcomes the  *)
(* call can have (an OK reply, a NO reply, an error of the connection      *)
(* family the code names in its except clauses, any other exception).      *)
(* The process around it (src/main.py: EmailBot.start, shutdown, main) is  *)
(* the main task, the chat polling task and the cancellation of the        *)
(* monitoring task.                                                        *)
(***************************************************************************)
EXTENDS Integers, Sequences, FiniteSets, TLC

\* ---------------------------------------------------------------- bounds
MaxTime == 2        \* wall-clock instants are 0..MaxTime
MaxMsgs == 2        \* messages that ever arrive in the mailbox
DayLen  == 2        \* clock instants per calendar day
MaxGroups == 3      \* destinations configured in NOTIFIED_GROUPS
MaxParts == 2       \* parts of a multipart message

\* ------------------------------------------------------ program constants
Minute     == 1     \* timedelta(minutes=1): the unit of the clock
RetryCount == 3     \* connect(retry_count=3)
BackoffBase == 5    \* asyncio.sleep(5 * (attempt + 1))

None     == "None"
NoSearch == <<0>>   \* "no search result in this cycle" (0 is never an id)

\* exception kinds: "conn" is the family (ssl.SSLError, ConnectionResetError,
\* OSError, IMAP4.abort, IMAP4.error); "other" is any other Exception
Kinds == {"conn", "other"}

\* ------------------------------------------------------------ pure helpers
Range(s) == {s[k] : k \in 1..Len(s)}

Day(t) == t \div DayLen

Contains(s, sub) ==
    \E k \in 0..(Len(s) - Len(sub)) : SubSeq(s, k + 1, k + Len(sub)) = sub

Perms(S) ==
    {p \in [1..Cardinality(S) -> S] : \A a, b \in 1..Cardinality(S) : p[a] = p[b] => a = b}

\* the configured filter address and the From headers a message can carry:
\* the bare address, an address that contains it, a display name equal to it
\* in front of another address, and an unrelated address
FilterAddr == <<"a">>
Froms ==
    { <<"a">>, <<"b", "a">>, <<"a", " ", "<", "b", ">">>, <<"b">> }

\* email.utils.parseaddr: the address is what stands between "<" and ">" when
\* the header has that form, and the whole header otherwise
LtPos(h) == IF \E k \in 1..Len(h) : h[k] = "<"
            THEN CHOOSE k \in 1..Len(h) : h[k] = "<" /\ \A j \in 1..(k - 1) : h[j] # "<"
            ELSE 0
GtPos(h) == IF \E k \in 1..Len(h) : h[k] = ">"
            THEN CHOOSE k \in 1..Len(h) : h[k] = ">" /\ \A j \in 1..(k - 1) : h[j] # ">"
            ELSE 0
parseaddr(h) ==
    IF LtPos(h) > 0 /\ GtPos(h) > LtPos(h)
    THEN SubSeq(h, LtPos(h) + 1, GtPos(h) - 1)
    ELSE h

\* the search predicate the code sends: SINCE <day of the watermark>, and
\* FROM "<sender>" when a sender is configured.  The server (RFC 3501, 6.4.4)
\* compares SINCE with the day the message arrived, and a message matches
\* FROM when the string is a substring of its From header.
SearchMatches(m, wm, sender) ==
    /\ m.iday >= Day(wm)
    /\ (sender # None => Contains(m.from, sender))

\* except clauses, as the set of exception kinds each one catches
EnsureCatches     == {"conn"}
ConnectCatches    == {"conn", "other"}
DisconnectCatchesNothing == {}
DisconnectCatchesConnOnly == {"conn"}
DisconnectCatches == {"conn", "other"}
SelectCatches     == {"conn"}
MessageCatches    == {"conn", "other"}
PollCatchesConnOnly == {"conn"}
PollCatches       == {"conn", "other"}
PollDisconnects   == {"conn"}

\* imaplib: the states of a handle in which a command may be sent
SelectLegal(h) == h \in {"AUTH", "SELECTED"}
SearchLegal(h) == h = "SELECTED"

\* the outcomes of the two server calls of disconnect: both succeed, close
\* raises, or close succeeds and logout raises
DiscOut == {"ok", "close_conn", "close_other", "logout_conn", "logout_other"}
DiscKind(d) == IF d \in {"close_conn", "logout_conn"} THEN "conn" ELSE "other"

\* EmailReader.disconnect on handle h when the server calls end as d: the
\* handle it leaves and the exception kind that escapes it ("none").  imaplib
\* refuses close outside the state SELECTED (IMAP4.error) and leaves the
\* handle in AUTH after close; logout puts it in LOGOUT before it sends.
Disconnect(h, d) ==
    IF h = None THEN [imap |-> None, raised |-> "none"]
    ELSE IF h # "SELECTED"
         THEN [imap |-> "AUTH",
               raised |-> IF "conn" \in DisconnectCatches THEN "none" ELSE "conn"]
    ELSE IF d = "ok" THEN [imap |-> None, raised |-> "none"]
    ELSE [imap |-> IF d \in {"close_conn", "close_other"} THEN "AUTH" ELSE "LOGOUT",
          raised |-> IF DiscKind(d) \in DisconnectCatches THEN "none" ELSE DiscKind(d)]

\* where the loop stands after its except clause (lines 281-285): in the
\* interval sleep
AfterLoopErrorNoSleep == "ensure"
AfterLoopError == "sleep"

\* the watermark a cycle leaves when it returns before line 252
WatermarkRewoundOnFailure(wm, clock) == IF clock >= Minute THEN clock - Minute ELSE 0
WatermarkAdvancedOnFailure(wm, clock) == clock
WatermarkOnFailure(wm, clock) == wm

\* the watermark a cycle leaves after its per-message loop (line 252)
WatermarkFromLastEmail(wm, clock, emails) ==
    IF emails # <<>> THEN emails[Len(emails)].date ELSE clock
WatermarkOnlyIfFound(wm, clock, emails) ==
    IF emails # <<>> THEN clock ELSE wm
WatermarkOnCompletion(wm, clock, emails) == clock

\* the per-message test of line 222: is the message new
IsNewInclusive(date, wm) == ~(date < wm)
IsNew(date, wm) == ~(date <= wm)

\* "connect was not called in this cycle"
NoConnects == [calls |-> 0, attempts |-> 0]

\* "no liveness probe was made"
NoProbe == [h |-> None, o |-> "none"]

\* ------------------------------------------------------------------ state
VARIABLES
    now,              \* the wall clock (datetime.now(timezone.utc))
    mailbox,          \* the server's INBOX: message number k is mailbox[k]
    sender_email,     \* the sender filter given to run_email_monitoring
    imap,             \* self.imap: None, or the imaplib state of the handle
    last_check_time,  \* self.last_check_time, the watermark
    pc,               \* where the monitoring task stands
    attempt,          \* connect: the loop variable
    connRet,          \* connect: which call site it returns to
    email_ids,        \* check_new_emails: ids still to process
    new_emails,       \* check_new_emails: the list built so far
    result,           \* run_email_monitoring: emails still to dispatch
    wmStart,          \* history: the watermark when the cycle started
    ret,              \* history: how the cycle's poll ended (none/list/raised)
    retList,          \* history: the list the cycle's poll returned
    searchIds,        \* history: the ids the cycle's search returned
    okIds,            \* history: ids whose fetch returned OK in the cycle
    selLog,           \* history: outcomes of the cycle's select calls
    searchSent,       \* history: a SEARCH command reached the server
    failedPrev,       \* history: ids whose fetch failed in a completed cycle
    handledAt,        \* history: id -> size of the mailbox when it was handed
                      \*          to the handler last (0: never)
    recording,        \* whether failedPrev and handledAt are recorded
    tracing,          \* whether the four histories below are recorded
    probe,            \* history: the cycle's liveness probe, as the handle it
                      \*          was sent on and its outcome
    connTrace,        \* history: the attempts of the latest call of connect,
                      \*          each with its outcome and the sleep after it
    polled,           \* history: the ids of the list the cycle's poll returned
    connects,         \* history: the calls of connect and the connection
                      \*          attempts of the cycle, counted
    pollError,        \* history: the poll returned its list from an except
                      \*          clause of lines 256-265
    dispatched,       \* history: the handler invocations of the cycle, each
                      \*          with the id and how it ended
    mainPc,           \* where the main task (main, EmailBot.start) stands
    chat,             \* the chat polling task: the state of its command handling
    cancelReq,        \* a cancellation of the monitoring task is pending
    cancelledAt,      \* history: where the monitoring task was cancelled
    shutdownAt,       \* history: where the monitoring task stood when
                      \*          EmailBot.shutdown called disconnect
    sendOutcomes,     \* send_to_groups: for each configured destination, how
                      \*          its send and its fallback send end
    sendResult,       \* send_to_groups: what one call did
    msgParts,         \* get_email_body: the parts of the multipart message
    bodyResult,       \* get_email_body: what one call returned
    emails_processed  \* EmailBot.emails_processed

procVars  == <<mainPc, chat, cancelReq, cancelledAt, shutdownAt>>
callVars  == <<sendOutcomes, sendResult, msgParts, bodyResult, emails_processed>>
traceVars == <<probe, connTrace, connects, polled, pollError, dispatched>>
envVars   == <<now, mailbox, sender_email, recording, callVars, tracing, procVars>>
frameVars == <<pc, attempt, connRet, email_ids, new_emails, result>>
cycleHist == <<wmStart, ret, retList, searchIds, okIds, selLog, searchSent>>
lifeHist  == <<failedPrev, handledAt>>
vars == <<now, mailbox, sender_email, imap, last_check_time, pc, attempt,
          connRet, email_ids, new_emails, result, wmStart, ret, retList,
          searchIds, okIds, selLog, searchSent, failedPrev, handledAt,
          recording, tracing, probe, connTrace, connects, polled, pollError,
          dispatched, mainPc,
          chat, cancelReq, cancelledAt, shutdownAt, sendOutcomes, sendResult,
          msgParts, bodyResult, emails_processed>>

Ids == 1..MaxMsgs

Handles == {None, "NONAUTH", "AUTH", "SELECTED", "LOGOUT"}

ReplyOut == {"OK", "NO", "conn", "other"}     \* outcomes of one server command
ConnOut  == {"ctor_conn", "ctor_other", "login_OK", "login_NO", "login_conn", "login_other"}

\* send_to_groups has not been called: nothing attempted, success_count = 0
NoSend == [called |-> FALSE, attempts |-> <<>>, success_count |-> 0, raised |-> "none"]

\* get_email_body has not been called
NoBody == [called |-> FALSE, text |-> <<>>]

\* EmailBot.__init__ (line 127), and neither send_to_groups nor
\* get_email_body is looked at on its own
NoCalls ==
    /\ sendOutcomes = <<>>
    /\ sendResult = NoSend
    /\ msgParts = <<>>
    /\ bodyResult = NoBody
    /\ emails_processed = 0

\* EmailReader.__init__: no handle, watermark one minute before now.  The
\* monitoring task stands at p and the main task at m.
InitReader(sender, rec, tr, m, p) ==
    /\ recording = rec
    /\ tracing = tr
    /\ probe = NoProbe
    /\ connTrace = <<>>
    /\ connects = NoConnects
    /\ polled = <<>>
    /\ pollError = FALSE
    /\ dispatched = <<>>
    /\ mainPc = m
    /\ chat = "idle"
    /\ cancelReq = FALSE
    /\ cancelledAt = "none"
    /\ shutdownAt = "none"
    /\ now = Minute
    /\ mailbox = <<>>
    /\ sender_email = sender
    /\ imap = None
    /\ last_check_time = now - Minute
    /\ pc = p
    /\ attempt = 0
    /\ connRet = "none"
    /\ email_ids = <<>>
    /\ new_emails = <<>>
    /\ result = <<>>
    /\ wmStart = last_check_time
    /\ ret = "none"
    /\ retList = <<>>
    /\ searchIds = NoSearch
    /\ okIds = {}
    /\ selLog = <<>>
    /\ searchSent = FALSE
    /\ failedPrev = {}
    /\ handledAt = [i \in Ids |-> 0]

\* EmailBot.__init__ with its EmailReader
InitState(sender, rec, tr, m, p) == InitReader(sender, rec, tr, m, p) /\ NoCalls

\* the monitoring task alone, started by EmailBot.start_monitoring
InitWith(sender, rec) == InitState(sender, rec, FALSE, "gather", "sleep")

\* run_email_monitoring(callback, sender_email=None)
Init == InitWith(None, FALSE)

\* ------------------------------------------------------------ environment
\* the wall clock advances (it never goes back)
Tick ==
    /\ now < MaxTime
    /\ now' = now + 1
    /\ UNCHANGED <<mailbox, sender_email, recording, callVars, imap, last_check_time>>
    /\ UNCHANGED <<frameVars, cycleHist, lifeHist, tracing, traceVars, procVars>>

\* a message arrives: the server numbers it and stamps the arrival day; its
\* Date and From headers are whatever the sender wrote (dateOK: the Date
\* header is there and can be parsed)
ArriveFrom(dates, oks, froms) ==
    /\ Len(mailbox) < MaxMsgs
    /\ \E dt \in dates, ok \in oks, f \in froms :
          /\ (~ok => dt = 0)
          /\ mailbox' = Append(mailbox, [date |-> dt, dateOK |-> ok, from |-> f, iday |-> Day(now)])
    /\ UNCHANGED <<now, sender_email, recording, callVars, imap, last_check_time>>
    /\ UNCHANGED <<frameVars, cycleHist, lifeHist, tracing, traceVars, procVars>>

\* without a sender filter the From header plays no part
Arrive == ArriveFrom(0..MaxTime, BOOLEAN, {<<"b">>})

\* a message whose Date header is the instant it arrives
ArrivePunctual == ArriveFrom({now}, {TRUE}, {<<"b">>})

\* with the sender filter set, every form of the From header arrives
ArriveAnySender == ArriveFrom({MaxTime}, {TRUE}, Froms)

\* the ids of a list of emails, in its order
IdsOf(list) == [k \in 1..Len(list) |-> list[k].id]

\* ------------------------------------------- how check_new_emails finishes
\* check_new_emails is left: with a list to the dispatch loop of
\* run_email_monitoring, returned by its body (kind "list") or by one of its
\* except clauses (kind "caught"), or with an exception to the except clause
\* of the loop, which has already torn the session down in h (kind "raised"),
\* or whose disconnect raised in its turn and ended the task (kind "fatal")
Finish(kind, list, h, wm) ==
    /\ pc' = CASE kind \in {"list", "caught"} -> "dispatch"
              [] kind = "raised"             -> AfterLoopError
              [] OTHER                       -> "dead"
    /\ result' = list
    /\ ret' = IF kind \in {"list", "caught"} THEN "list" ELSE "raised"
    /\ retList' = list
    /\ polled' = IF tracing THEN IdsOf(list) ELSE polled
    /\ pollError' = IF tracing THEN kind = "caught" ELSE pollError
    /\ imap' = h
    /\ last_check_time' = wm
    /\ email_ids' = <<>>
    /\ new_emails' = <<>>
    /\ attempt' = 0
    /\ connRet' = "none"

\* an exception leaves check_new_emails and reaches lines 281-285
Escape(h, d) ==
    Finish(IF Disconnect(h, d).raised = "none" THEN "raised" ELSE "fatal",
           <<>>, Disconnect(h, d).imap, last_check_time)

\* an exception of the given kind reaches the except clauses of lines 256-265
Raise(kind, h, d) ==
    IF kind \notin PollCatches THEN Escape(h, d)
    ELSE IF kind \notin PollDisconnects
         THEN Finish("caught", <<>>, h, WatermarkOnFailure(last_check_time, now))
    ELSE IF Disconnect(h, d).raised = "none"
         THEN Finish("caught", <<>>, Disconnect(h, d).imap,
                     WatermarkOnFailure(last_check_time, now))
    ELSE Escape(Disconnect(h, d).imap, d)

\* connect is called from the call site retTo on handle h
StartConnect(retTo, h) ==
    /\ pc' = "connect"
    /\ attempt' = 0
    /\ connRet' = retTo
    /\ imap' = h
    /\ UNCHANGED <<last_check_time, email_ids, new_emails, result, ret, retList, polled, pollError>>

\* disconnect() and then connect() inside check_new_emails
Reconnect(retTo, h, d) ==
    IF Disconnect(h, d).raised = "none"
    THEN StartConnect(retTo, Disconnect(h, d).imap)
    ELSE Raise(Disconnect(h, d).raised, Disconnect(h, d).imap, d)

\* the history of a poll is kept until the loop takes its next step
ClearCycle ==
    /\ wmStart' = last_check_time
    /\ ret' = "none"
    /\ retList' = <<>>
    /\ searchIds' = NoSearch
    /\ okIds' = {}
    /\ selLog' = <<>>
    /\ searchSent' = FALSE

\* a step that calls connect (it leaves the task at the first attempt) is
\* counted; the count is kept until the search of the cycle or its end
CountCall ==
    connects' = IF tracing /\ pc' = "connect"
                THEN [connects EXCEPT !.calls = @ + 1]
                ELSE connects

\* the points where the monitoring task is suspended in an await that yields
\* to the event loop: asyncio.sleep of lines 279 and 285, asyncio.sleep of
\* lines 74, 81 and 88, and the awaits inside the handler (line 277).  The
\* imaplib calls are plain blocking calls.
Suspended == {"sleep", "backoff", "handling"}

\* the monitoring task does not exist (yet, or any more)
TaskGone == pc \in {"idle", "cancelled", "dead"}

\* -------------------------------------------------------- the poll cycle
\* run_email_monitoring wakes up and calls check_new_emails (line 274)
BeginCycle ==
    /\ pc = "sleep"
    /\ pc' = "ensure"
    /\ ClearCycle
    /\ probe' = NoProbe
    /\ connTrace' = <<>>
    /\ connects' = NoConnects
    /\ polled' = <<>>
    /\ pollError' = FALSE
    /\ dispatched' = <<>>
    /\ UNCHANGED <<envVars, imap, last_check_time, lifeHist>>
    /\ UNCHANGED <<attempt, connRet, email_ids, new_emails, result>>

\* what the liveness probe of lines 28-31 makes of the outcome of NOOP: "OK"
\* lets ensure_connection return True, a status other than OK is turned into
\* IMAP4.error by line 30, an exception stays what it is
NoopKindNeverOK(o) == IF o \in {"OK", "NO"} THEN "conn" ELSE o
NoopKind(o) == IF o = "NO" THEN "conn" ELSE o

\* ensure_connection (lines 22-42), up to its call of connect
EnsureConnection ==
    /\ pc = "ensure"
    /\ \E o \in ReplyOut, d \in DiscOut :
          /\ IF imap = None THEN StartConnect("ensure", imap)
             ELSE IF NoopKind(o) = "OK"
                  THEN /\ pc' = "select1"
                       /\ UNCHANGED <<imap, last_check_time, attempt, connRet,
                                      email_ids, new_emails, result, ret, retList, polled, pollError>>
             ELSE IF NoopKind(o) \in EnsureCatches
                  THEN Reconnect("ensure", imap, d)
             ELSE Raise(NoopKind(o), imap, d)
          /\ probe' = IF tracing /\ imap # None THEN [h |-> imap, o |-> o] ELSE probe
    /\ connTrace' = IF pc' = "connect" THEN <<>> ELSE connTrace
    /\ CountCall
    /\ UNCHANGED dispatched
    /\ UNCHANGED <<envVars, lifeHist, wmStart, searchIds, okIds, selLog, searchSent>>

\* where connect returns to when it returns True
AfterConnect(retTo) ==
    CASE retTo = "ensure"    -> "select1"
      [] retTo = "sel_nonok" -> "select2"
      [] retTo = "sel_exc"   -> "select3"

\* the exception one attempt of connect raises ("none": login returned not OK)
ConnKind(o) ==
    CASE o \in {"ctor_conn", "login_conn"}   -> "conn"
      [] o \in {"ctor_other", "login_other"} -> "other"
      [] OTHER                               -> "none"

\* the tests of lines 72, 80 and 87: another attempt remains after attempt a
MoreAttempts(a) == a < RetryCount - 1

\* the argument of asyncio.sleep in lines 74, 81 and 88
BackoffDelayFlat(a) == BackoffBase
BackoffDelay(a) == BackoffBase * (a + 1)

\* the handle self.imap holds after an attempt that ended as o on handle h:
\* line 61 assigns it as soon as the connection stands, before the login
HandleAfterAttempt(h, o) ==
    IF o \in {"ctor_conn", "ctor_other"} THEN h
    ELSE IF o = "login_OK" THEN "AUTH"
    ELSE "NONAUTH"

\* one attempt of connect (lines 46-88), up to its sleep
ConnectAttempt ==
    /\ pc = "connect"
    /\ \E o \in ConnOut, d \in DiscOut :
          LET h == HandleAfterAttempt(imap, o) IN
          /\ IF o = "login_OK"
             THEN /\ imap' = h
                  /\ pc' = AfterConnect(connRet)
                  /\ attempt' = 0
                  /\ connRet' = "none"
                  /\ UNCHANGED <<last_check_time, email_ids, new_emails, result, ret, retList, polled, pollError>>
             ELSE IF ConnKind(o) # "none" /\ ConnKind(o) \notin ConnectCatches
                  THEN Raise(ConnKind(o), h, d)
             ELSE IF MoreAttempts(attempt)
                  THEN /\ pc' = "backoff"
                       /\ imap' = h
                       /\ UNCHANGED <<last_check_time, attempt, connRet, email_ids,
                                      new_emails, result, ret, retList, polled, pollError>>
             ELSE Finish("list", <<>>, h, WatermarkOnFailure(last_check_time, now))
          /\ connTrace' =
                IF tracing
                THEN Append(connTrace,
                            [o |-> o,
                             slept |-> IF pc' = "backoff" THEN BackoffDelay(attempt) ELSE 0])
                ELSE connTrace
    /\ connects' = IF tracing THEN [connects EXCEPT !.attempts = @ + 1] ELSE connects
    /\ UNCHANGED <<probe, dispatched>>
    /\ UNCHANGED <<envVars, lifeHist, wmStart, searchIds, okIds, selLog, searchSent>>

\* the sleep of connect is over: the for loop of line 46 starts the next
\* attempt, or is exhausted and connect returns False (line 90)
Backoff ==
    /\ pc = "backoff"
    /\ IF attempt + 1 < RetryCount
       THEN /\ pc' = "connect"
            /\ attempt' = attempt + 1
            /\ UNCHANGED <<imap, last_check_time, connRet, email_ids, new_emails,
                           result, ret, retList, polled, pollError>>
       ELSE Finish("list", <<>>, imap, WatermarkOnFailure(last_check_time, now))
    /\ UNCHANGED <<envVars, lifeHist, probe, connTrace, connects, dispatched>>
    /\ UNCHANGED <<wmStart, searchIds, okIds, selLog, searchSent>>

\* what a select call does on handle h when the server's outcome is o: imaplib
\* refuses the command (IMAP4.error) in a state where it is not allowed
SelectOutcome(h, o) == IF SelectLegal(h) THEN o ELSE "conn"

\* the first select of INBOX (line 167) and the handling of its failure
Select1 ==
    /\ pc = "select1"
    /\ \E o \in ReplyOut, d \in DiscOut :
          LET e == SelectOutcome(imap, o) IN
          /\ selLog' = Append(selLog, e)
          /\ IF e = "OK"
             THEN /\ pc' = "search"
                  /\ imap' = "SELECTED"
                  /\ UNCHANGED <<last_check_time, attempt, connRet, email_ids,
                                 new_emails, result, ret, retList, polled, pollError>>
             ELSE IF e = "NO" THEN Reconnect("sel_nonok", "AUTH", d)
             ELSE IF e \in SelectCatches THEN Reconnect("sel_exc", imap, d)
             ELSE Raise(e, imap, d)
    /\ probe' = NoProbe
    /\ connTrace' = <<>>
    /\ CountCall
    /\ UNCHANGED dispatched
    /\ UNCHANGED <<envVars, lifeHist, wmStart, searchIds, okIds, searchSent>>

\* the select after the reconnect of line 172 (line 174): it stands inside
\* the try of line 165 and its result is not looked at
Select2 ==
    /\ pc = "select2"
    /\ \E o \in ReplyOut, d \in DiscOut :
          LET e == SelectOutcome(imap, o) IN
          /\ selLog' = Append(selLog, e)
          /\ IF e \in {"OK", "NO"}
             THEN /\ pc' = "search"
                  /\ imap' = IF e = "OK" THEN "SELECTED" ELSE "AUTH"
                  /\ UNCHANGED <<last_check_time, attempt, connRet, email_ids,
                                 new_emails, result, ret, retList, polled, pollError>>
             ELSE IF e \in SelectCatches THEN Reconnect("sel_exc", imap, d)
             ELSE Raise(e, imap, d)
    /\ probe' = NoProbe
    /\ connTrace' = <<>>
    /\ CountCall
    /\ UNCHANGED dispatched
    /\ UNCHANGED <<envVars, lifeHist, wmStart, searchIds, okIds, searchSent>>

\* the select after the reconnect of line 180 (line 182): it stands inside
\* the except clause, so only the clauses of lines 256-265 are left; its
\* result is not looked at
Select3 ==
    /\ pc = "select3"
    /\ \E o \in ReplyOut, d \in DiscOut :
          LET e == SelectOutcome(imap, o) IN
          /\ selLog' = Append(selLog, e)
          /\ IF e \in {"OK", "NO"}
             THEN /\ pc' = "search"
                  /\ imap' = IF e = "OK" THEN "SELECTED" ELSE "AUTH"
                  /\ UNCHANGED <<last_check_time, attempt, connRet, email_ids,
                                 new_emails, result, ret, retList, polled, pollError>>
             ELSE Raise(e, imap, d)
    /\ probe' = NoProbe
    /\ connTrace' = <<>>
    /\ CountCall
    /\ UNCHANGED dispatched
    /\ UNCHANGED <<envVars, lifeHist, wmStart, searchIds, okIds, searchSent>>

\* the ids the server finds for the predicate of lines 185-189
Matching == {k \in 1..Len(mailbox) : SearchMatches(mailbox[k], last_check_time, sender_email)}

\* the search (lines 185-198)
Search ==
    /\ pc = "search"
    /\ \E o \in ReplyOut, d \in DiscOut :
          IF ~SearchLegal(imap)
          THEN /\ Raise("conn", imap, d)
               /\ UNCHANGED <<searchIds, searchSent>>
          ELSE /\ searchSent' = TRUE
               /\ IF o = "OK"
                  THEN \E p \in Perms(Matching) :
                          /\ email_ids' = p
                          /\ searchIds' = p
                          /\ new_emails' = <<>>
                          /\ pc' = "fetch"
                          /\ UNCHANGED <<imap, last_check_time, attempt, connRet,
                                         result, ret, retList, polled, pollError>>
                  ELSE /\ IF o = "NO"
                          THEN Finish("list", <<>>, imap,
                                      WatermarkOnFailure(last_check_time, now))
                          ELSE Raise(o, imap, d)
                       /\ UNCHANGED searchIds
    /\ UNCHANGED <<envVars, lifeHist, wmStart, okIds, selLog>>
    /\ connects' = NoConnects
    /\ UNCHANGED <<probe, connTrace, dispatched>>

\* the dictionary of lines 235-242, without the fields no property reads
EmailInfo(k) ==
    [id |-> k, from_email |-> parseaddr(mailbox[k].from), date |-> mailbox[k].date]

\* what one pass of the per-message loop appends for id k after an OK fetch
\* (lines 211-244): nothing when the date cannot be parsed or is not new
Processed(k, wm) ==
    IF ~mailbox[k].dateOK THEN <<>>
    ELSE IF ~IsNew(mailbox[k].date, wm) THEN <<>>
    ELSE <<EmailInfo(k)>>

\* one pass of the per-message loop (lines 202-249)
FetchOne ==
    /\ pc = "fetch"
    /\ email_ids # <<>>
    /\ \E o \in ReplyOut, d \in DiscOut :
          LET k == Head(email_ids) IN
          /\ okIds' = IF o = "OK" THEN okIds \cup {k} ELSE okIds
          /\ IF o \in {"conn", "other"} /\ o \notin MessageCatches
             THEN Raise(o, imap, d)
             ELSE /\ new_emails' = IF o = "OK"
                                   THEN new_emails \o Processed(k, last_check_time)
                                   ELSE new_emails
                  /\ email_ids' = Tail(email_ids)
                  /\ UNCHANGED <<pc, imap, last_check_time, attempt, connRet,
                                 result, ret, retList, polled, pollError>>
    /\ UNCHANGED <<envVars, failedPrev, handledAt, probe, connTrace, connects, dispatched>>
    /\ UNCHANGED <<wmStart, searchIds, selLog, searchSent>>

\* the end of the poll: the watermark is set and the list returned
\* (lines 251-254)
Advance ==
    /\ pc = "fetch"
    /\ email_ids = <<>>
    /\ Finish("list", new_emails, imap,
              WatermarkOnCompletion(last_check_time, now, new_emails))
    /\ failedPrev' = IF recording THEN failedPrev \cup (Range(searchIds) \ okIds)
                      ELSE failedPrev
    /\ UNCHANGED <<envVars, handledAt, probe, connTrace, connects, dispatched>>
    /\ UNCHANGED <<wmStart, searchIds, okIds, selLog, searchSent>>

\* ------------------------------------------------- the monitoring loop
\* the handler is called with the next email of the list and awaited
\* (lines 276-277)
Dispatch ==
    /\ pc = "dispatch"
    /\ result # <<>>
    /\ pc' = "handling"
    /\ handledAt' = IF recording
                    THEN [handledAt EXCEPT ![Head(result).id] = Len(mailbox)]
                    ELSE handledAt
    /\ dispatched' = IF tracing
                     THEN Append(dispatched, [id |-> Head(result).id, end |-> "none"])
                     ELSE dispatched
    /\ ClearCycle
    /\ probe' = NoProbe
    /\ connTrace' = <<>>
    /\ connects' = NoConnects
    /\ UNCHANGED <<envVars, imap, last_check_time, attempt, connRet, email_ids,
                   new_emails, result, failedPrev, polled, pollError>>

\* the except clause of the loop (lines 281-285) on handle h: disconnect, and
\* the interval sleep when disconnect returns
LoopError(h, d) ==
    [pc   |-> IF Disconnect(h, d).raised = "none" THEN AfterLoopError ELSE "dead",
     imap |-> Disconnect(h, d).imap]

\* the handler returns and the for loop goes on, or it raises and the except
\* clause of lines 281-285 ends the cycle
HandlerReturn ==
    /\ pc = "handling"
    /\ \E o \in {"ok", "raised"}, d \in DiscOut :
          /\ IF o = "ok"
             THEN /\ result' = Tail(result)
                  /\ pc' = "dispatch"
                  /\ UNCHANGED imap
             ELSE /\ result' = <<>>
                  /\ pc' = LoopError(imap, d).pc
                  /\ imap' = LoopError(imap, d).imap
          /\ dispatched' = IF tracing
                           THEN [dispatched EXCEPT ![Len(dispatched)].end = o]
                           ELSE dispatched
    /\ UNCHANGED <<envVars, last_check_time, attempt, connRet, email_ids, new_emails>>
    /\ UNCHANGED <<cycleHist, lifeHist, probe, connTrace, connects, polled, pollError>>

\* every email of the list was handled: the loop sleeps (line 279)
EndCycle ==
    /\ pc = "dispatch"
    /\ result = <<>>
    /\ pc' = "sleep"
    /\ UNCHANGED <<envVars, imap, last_check_time, attempt, connRet, email_ids,
                   new_emails, result>>
    /\ ClearCycle
    /\ probe' = NoProbe
    /\ connTrace' = <<>>
    /\ connects' = NoConnects
    /\ pollError' = FALSE
    /\ UNCHANGED <<lifeHist, polled, dispatched>>

Next ==
    \/ Tick
    \/ Arrive
    \/ BeginCycle
    \/ EnsureConnection
    \/ ConnectAttempt
    \/ Backoff
    \/ Select1
    \/ Select2
    \/ Select3
    \/ Search
    \/ FetchOne
    \/ Advance
    \/ Dispatch
    \/ HandlerReturn
    \/ EndCycle

Spec == Init /\ [][Next]_vars

\* the same program, with the history of deliveries and failed fetches
InitDelivery == InitWith(None, TRUE)

SpecDelivery == InitDelivery /\ [][Next]_vars

\* the same program started with the sender filter configured
InitFilter == InitWith(FilterAddr, FALSE)

NextFilter ==
    \/ Tick
    \/ ArriveAnySender
    \/ BeginCycle
    \/ EnsureConnection
    \/ ConnectAttempt
    \/ Backoff
    \/ Select1
    \/ Select2
    \/ Select3
    \/ Search
    \/ FetchOne
    \/ Advance
    \/ Dispatch
    \/ HandlerReturn
    \/ EndCycle

SpecFilter == InitFilter /\ [][NextFilter]_vars

\* the same program with the history of connect, of the probe and of the
\* dispatch loop
InitTrace == InitState(None, FALSE, TRUE, "gather", "sleep")

NextTrace ==
    \/ Tick
    \/ ArrivePunctual
    \/ BeginCycle
    \/ EnsureConnection
    \/ ConnectAttempt
    \/ Backoff
    \/ Select1
    \/ Select2
    \/ Select3
    \/ Search
    \/ FetchOne
    \/ Advance
    \/ Dispatch
    \/ HandlerReturn
    \/ EndCycle

SpecTrace == InitTrace /\ [][NextTrace]_vars

\* ------------------------------------------------------------ the process
\* asyncio runs one task at a time: the main task and the chat polling task
\* take steps only while the monitoring task is suspended in an await, or gone
LoopFree == pc \in Suspended \/ TaskGone

\* the chat polling task (dp.start_polling, line 444) can handle a command
ChatCanStep == mainPc = "gather" /\ chat # "failed" /\ LoopFree

\* EmailBot.start up to the creation of the monitoring task (lines 428-440):
\* bot.get_me succeeds and the task is created, or it raises
StartBot ==
    /\ mainPc = "start"
    /\ \E ok \in BOOLEAN :
          IF ok THEN mainPc' = "gather" /\ pc' = "sleep"
          ELSE mainPc' = "shutdown" /\ UNCHANGED pc
    /\ UNCHANGED <<now, mailbox, sender_email, recording, callVars, tracing, imap, last_check_time>>
    /\ UNCHANGED <<attempt, connRet, email_ids, new_emails, result>>
    /\ UNCHANGED <<cycleHist, lifeHist, traceVars, chat, cancelReq, cancelledAt, shutdownAt>>

\* the chat polling task handles a command
ChatStep ==
    /\ ChatCanStep
    /\ chat' = IF chat = "idle" THEN "busy" ELSE "idle"
    /\ UNCHANGED <<now, mailbox, sender_email, recording, callVars, tracing, imap, last_check_time>>
    /\ UNCHANGED <<frameVars, cycleHist, lifeHist, traceVars>>
    /\ UNCHANGED <<mainPc, cancelReq, cancelledAt, shutdownAt>>

\* the chat polling task ends with an exception: gather (line 454) hands it
\* to the main task at once and leaves the monitoring task running
PollingFails ==
    /\ ChatCanStep
    /\ chat' = "failed"
    /\ mainPc' = "shutdown"
    /\ UNCHANGED <<now, mailbox, sender_email, recording, callVars, tracing, imap, last_check_time>>
    /\ UNCHANGED <<frameVars, cycleHist, lifeHist, traceVars>>
    /\ UNCHANGED <<cancelReq, cancelledAt, shutdownAt>>

\* the main task is cancelled while it waits in gather (line 454), which
\* cancels the monitoring task: the request can come at any moment
Interrupt ==
    /\ mainPc = "gather"
    /\ mainPc' = "cancelling"
    /\ cancelReq' = ~TaskGone
    /\ UNCHANGED <<now, mailbox, sender_email, recording, callVars, tracing, imap, last_check_time>>
    /\ UNCHANGED <<frameVars, cycleHist, lifeHist, traceVars>>
    /\ UNCHANGED <<chat, cancelledAt, shutdownAt>>

\* CancelledError is raised in the monitoring task at the await it is
\* suspended in; no except clause of the task catches it
DeliverCancel ==
    /\ cancelReq
    /\ pc \in Suspended
    /\ pc' = "cancelled"
    /\ cancelledAt' = pc
    /\ cancelReq' = FALSE
    /\ UNCHANGED <<now, mailbox, sender_email, recording, callVars, tracing, imap, last_check_time>>
    /\ UNCHANGED <<attempt, connRet, email_ids, new_emails, result>>
    /\ UNCHANGED <<cycleHist, lifeHist, traceVars, mainPc, chat, shutdownAt>>

\* gather ends once the cancelled tasks have ended; CancelledError passes
\* the except clauses of start and main and reaches the finally of line 488
GatherCancelled ==
    /\ mainPc = "cancelling"
    /\ TaskGone
    /\ mainPc' = "shutdown"
    /\ UNCHANGED <<now, mailbox, sender_email, recording, callVars, tracing, imap, last_check_time>>
    /\ UNCHANGED <<frameVars, cycleHist, lifeHist, traceVars>>
    /\ UNCHANGED <<chat, cancelReq, cancelledAt, shutdownAt>>

\* EmailBot.shutdown (lines 461-470): the main task calls disconnect on the
\* reader's session and then awaits the close of the bot session
Shutdown ==
    /\ mainPc = "shutdown"
    /\ LoopFree
    /\ \E d \in DiscOut : imap' = Disconnect(imap, d).imap
    /\ shutdownAt' = pc
    /\ mainPc' = "closing"
    /\ UNCHANGED <<now, mailbox, sender_email, recording, callVars, tracing, last_check_time>>
    /\ UNCHANGED <<frameVars, cycleHist, lifeHist, traceVars>>
    /\ UNCHANGED <<chat, cancelReq, cancelledAt>>

\* main returns and asyncio.run (line 499) cancels the tasks that are left
SessionClosed ==
    /\ mainPc = "closing"
    /\ LoopFree
    /\ mainPc' = "done"
    /\ cancelReq' = ~TaskGone
    /\ UNCHANGED <<now, mailbox, sender_email, recording, callVars, tracing, imap, last_check_time>>
    /\ UNCHANGED <<frameVars, cycleHist, lifeHist, traceVars>>
    /\ UNCHANGED <<chat, cancelledAt, shutdownAt>>

\* the process: main creates EmailBot and runs start
InitProcess == InitState(None, FALSE, FALSE, "start", "idle")

NextProcess ==
    \/ Tick
    \/ ArrivePunctual
    \/ BeginCycle
    \/ EnsureConnection
    \/ ConnectAttempt
    \/ Backoff
    \/ Select1
    \/ Select2
    \/ Select3
    \/ Search
    \/ FetchOne
    \/ Advance
    \/ Dispatch
    \/ HandlerReturn
    \/ EndCycle
    \/ StartBot
    \/ ChatStep
    \/ PollingFails
    \/ Interrupt
    \/ DeliverCancel
    \/ GatherCancelled
    \/ Shutdown
    \/ SessionClosed

SpecProcess == InitProcess /\ [][NextProcess]_vars

\* ------------------------------------------------------- send_to_groups
\* every variable of the reader and of the process
readerVars == <<now, mailbox, sender_email, recording, tracing, imap,
                last_check_time, frameVars, cycleHist, lifeHist, traceVars,
                procVars>>

\* how one call of bot.send_message ends: it returns, or raises an Exception
\* (a Telegram API error, a network error)
SendOut == {"ok", "error"}

\* for one destination: how the formatted send and the plain fallback end
DestOut == [primary : SendOut, fallback : SendOut]

\* Config.NOTIFIED_GROUPS after Config.validate: a non-empty list; the
\* destinations are named by their position in it
GroupOutcomes == UNION {[1..n -> DestOut] : n \in 1..MaxGroups}

\* the except clauses of send_to_groups: line 352 around the formatted send,
\* line 374 around the fallback send
PrimaryCatches == {"error"}
FallbackCatchesNothing == {}
FallbackCatches == {"error"}

\* the for loop of send_to_groups (lines 342-376) from destination k on,
\* with acc what the call has done so far
RECURSIVE SendFrom(_, _, _)
SendFrom(outs, k, acc) ==
    IF k > Len(outs) THEN acc
    ELSE LET a1 == [acc EXCEPT !.attempts = Append(@, [dest |-> k, how |-> "html"])] IN
         IF outs[k].primary = "ok"
         THEN SendFrom(outs, k + 1, [a1 EXCEPT !.success_count = @ + 1])
         ELSE IF outs[k].primary \notin PrimaryCatches
              THEN [a1 EXCEPT !.raised = outs[k].primary]
         ELSE LET a2 == [a1 EXCEPT !.attempts = Append(@, [dest |-> k, how |-> "plain"])] IN
              IF outs[k].fallback = "ok"
              THEN SendFrom(outs, k + 1, [a2 EXCEPT !.success_count = @ + 1])
              ELSE IF outs[k].fallback \notin FallbackCatches
                   THEN [a2 EXCEPT !.raised = outs[k].fallback]
              ELSE SendFrom(outs, k + 1, a2)

\* send_to_groups(message_text) (lines 336-379): success_count = 0, then
\* the loop over the destinations
SendToGroups(outs) == SendFrom(outs, 1, [NoSend EXCEPT !.called = TRUE])

\* one call of send_to_groups for one notification text
SendToGroupsCall ==
    /\ ~sendResult.called
    /\ sendResult' = SendToGroups(sendOutcomes)
    /\ UNCHANGED <<sendOutcomes, msgParts, bodyResult, emails_processed, readerVars>>

InitSend ==
    /\ InitReader(None, FALSE, FALSE, "start", "idle")
    /\ sendOutcomes \in GroupOutcomes
    /\ sendResult = NoSend
    /\ msgParts = <<>>
    /\ bodyResult = NoBody
    /\ emails_processed = 0

NextSend == SendToGroupsCall

SpecSend == InitSend /\ [][NextSend]_vars

\* ------------------------------------------------------- get_email_body
\* the text of a part is a string over: a letter ("a", "b"), a blank (" ")
\* and a whole HTML tag such as <br> ("T")
Texts == {<<"T">>, <<"T", " ">>, <<" ", "a">>, <<"T", "b">>}

\* a part as msg.walk() yields it: its content type, its payload, and
\* whether the payload decodes with the declared charset (bytes.decode raises
\* LookupError on an unknown charset)
PartTypes == {"text/plain", "text/html", "other"}
Parts == [type : PartTypes, content : Texts, decodable : BOOLEAN]

\* the multipart messages: sequences of parts in the order of msg.walk()
Multiparts == UNION {[1..n -> Parts] : n \in 0..MaxParts}

\* re.sub('<[^<]+?>', '', html_body) (line 144): every tag is removed
StripTags(t) == SelectSeq(t, LAMBDA c : c # "T")

\* str.strip() (line 155): leading and trailing blanks are removed
RECURSIVE Strip(_)
Strip(t) ==
    IF t = <<>> THEN t
    ELSE IF Head(t) = " " THEN Strip(Tail(t))
    ELSE IF t[Len(t)] = " " THEN Strip(SubSeq(t, 1, Len(t) - 1))
    ELSE t

\* the text line 153 puts in place of the body when anything raised
ExtractionError == <<"E">>

\* the for loop of lines 129-144 from part k on, with body what earlier
\* parts left: the text the loop ends with and whether a decode raised
RECURSIVE WalkFrom(_, _, _)
WalkFrom(ps, k, body) ==
    IF k > Len(ps) THEN [text |-> body, raised |-> FALSE]
    ELSE IF ps[k].type = "text/plain"
         THEN IF ps[k].decodable
              THEN [text |-> ps[k].content, raised |-> FALSE]
              ELSE [text |-> body, raised |-> TRUE]
    ELSE IF ps[k].type = "text/html" /\ body = <<>>
         THEN IF ps[k].decodable
              THEN WalkFrom(ps, k + 1, StripTags(ps[k].content))
              ELSE [text |-> body, raised |-> TRUE]
    ELSE WalkFrom(ps, k + 1, body)

\* get_email_body(msg) for a multipart msg (lines 122-155): the container
\* itself, which msg.walk() yields first, is of neither text type
GetEmailBody(ps) ==
    LET r == WalkFrom(ps, 1, <<>>)
    IN  Strip(IF r.raised THEN ExtractionError ELSE r.text)

\* one call of get_email_body on a multipart message
GetEmailBodyCall ==
    /\ ~bodyResult.called
    /\ bodyResult' = [called |-> TRUE, text |-> GetEmailBody(msgParts)]
    /\ UNCHANGED <<msgParts, sendOutcomes, sendResult, emails_processed, readerVars>>

InitBody ==
    /\ InitReader(None, FALSE, FALSE, "start", "idle")
    /\ sendOutcomes = <<>>
    /\ sendResult = NoSend
    /\ msgParts \in Multiparts
    /\ bodyResult = NoBody
    /\ emails_processed = 0

NextBody == GetEmailBodyCall

SpecBody == InitBody /\ [][NextBody]_vars

\* ----------------------------------------------------- handle_new_email
\* how format_email_message ends: it returns the text, or raises an
\* Exception (a missing key, a value of the wrong type)
FormatOut == {"ok", "error"}

\* the outcomes of the sends of one notification: Config.NOTIFIED_GROUPS is
\* fixed for the run, here at MaxGroups destinations
NotifyOutcomes == [1..MaxGroups -> DestOut]

\* the except clause of handle_new_email (line 402)
HandlerCatchesNothing == {}
HandlerCatches == {"error"}

\* handle_new_email(email_info) (lines 381-403) with n emails counted so
\* far: the exception raised inside its try block ("none": line 397 was
\* reached), the counter it leaves and the exception that escapes it
HandleNewEmailResult(n, f, outs) ==
    LET inside == IF f # "ok" THEN f ELSE SendToGroups(outs).raised
    IN  [emails_processed |-> IF inside = "none" THEN n + 1 ELSE n,
         raised |-> IF inside \in HandlerCatches THEN "none" ELSE inside]

\* the callback of the composed program returns to line 277, or raises to
\* the except clause of lines 281-285 (start_monitoring passes
\* self.handle_new_email as callback, line 419).  The history notes whether
\* formatting and send_to_groups both returned ("ok"), one of them raised
\* and was caught ("failed"), or the handler raised ("raised").
HandleNewEmail ==
    /\ pc = "handling"
    /\ \E f \in FormatOut, outs \in NotifyOutcomes, d \in DiscOut :
          LET r == HandleNewEmailResult(emails_processed, f, outs) IN
          /\ emails_processed' = r.emails_processed
          /\ IF r.raised = "none"
             THEN /\ result' = Tail(result)
                  /\ pc' = "dispatch"
                  /\ UNCHANGED imap
             ELSE /\ result' = <<>>
                  /\ pc' = LoopError(imap, d).pc
                  /\ imap' = LoopError(imap, d).imap
          /\ dispatched' =
                IF tracing
                THEN [dispatched EXCEPT ![Len(dispatched)].end =
                         IF r.raised # "none" THEN "raised"
                         ELSE IF f = "ok" /\ SendToGroups(outs).raised = "none"
                              THEN "ok"
                         ELSE "failed"]
                ELSE dispatched
    /\ UNCHANGED <<now, mailbox, sender_email, recording, tracing, procVars>>
    /\ UNCHANGED <<sendOutcomes, sendResult, msgParts, bodyResult>>
    /\ UNCHANGED <<last_check_time, attempt, connRet, email_ids, new_emails>>
    /\ UNCHANGED <<cycleHist, lifeHist, probe, connTrace, connects, polled, pollError>>

\* EmailBot.start_monitoring: the monitoring loop with handle_new_email as
\* its callback
NextBot ==
    \/ Tick
    \/ ArrivePunctual
    \/ BeginCycle
    \/ EnsureConnection
    \/ ConnectAttempt
    \/ Backoff
    \/ Select1
    \/ Select2
    \/ Select3
    \/ Search
    \/ FetchOne
    \/ Advance
    \/ Dispatch
    \/ HandleNewEmail
    \/ EndCycle

SpecBot == InitTrace /\ [][NextBot]_vars

TypeOK ==
    /\ now \in 0..MaxTime
    /\ last_check_time \in 0..MaxTime
    /\ imap \in Handles
    /\ Len(mailbox) <= MaxMsgs
    /\ pc \in {"idle", "sleep", "ensure", "connect", "backoff", "select1",
               "select2", "select3", "search", "fetch", "dispatch", "handling",
               "cancelled", "dead"}
    /\ attempt \in 0..(RetryCount - 1)
    /\ ret \in {"none", "list", "raised"}
    /\ probe.h \in Handles
    /\ Len(connTrace) <= RetryCount
    /\ connects.calls \in 0..3
    /\ connects.attempts \in 0..(3 * RetryCount)
    /\ pollError \in BOOLEAN
    /\ emails_processed \in 0..MaxMsgs
    /\ sendResult.success_count \in 0..MaxGroups
    /\ Len(bodyResult.text) <= 2
    /\ mainPc \in {"start", "gather", "cancelling", "shutdown", "closing", "done"}
    /\ chat \in {"idle", "busy", "failed"}
    /\ cancelReq \in BOOLEAN

\* ------------------------------------------------------------- fairness
Program ==
    \/ BeginCycle
    \/ EnsureConnection
    \/ ConnectAttempt
    \/ Backoff
    \/ Select1
    \/ Select2
    \/ Select3
    \/ Search
    \/ FetchOne
    \/ Advance
    \/ Dispatch
    \/ HandlerReturn
    \/ EndCycle

\* the loop keeps running, and a server call that is tried again and again
\* succeeds in the end: the probe, login, select, search, and the handler
NextFair ==
    \/ Tick
    \/ ArrivePunctual
    \/ BeginCycle
    \/ EnsureConnection
    \/ ConnectAttempt
    \/ Backoff
    \/ Select1
    \/ Select2
    \/ Select3
    \/ Search
    \/ FetchOne
    \/ Advance
    \/ Dispatch
    \/ HandlerReturn
    \/ EndCycle

FairSpec ==
    /\ InitDelivery
    /\ [][NextFair]_vars
    /\ WF_vars(Program)
    /\ SF_vars(EnsureConnection /\ pc' = "select1")
    /\ SF_vars(ConnectAttempt /\ pc' \in {"select1", "select2", "select3"})
    /\ SF_vars(Select1 /\ pc' = "search" /\ imap' = "SELECTED")
    /\ SF_vars(Select2 /\ pc' = "search" /\ imap' = "SELECTED")
    /\ SF_vars(Select3 /\ pc' = "search" /\ imap' = "SELECTED")
    /\ SF_vars(Search /\ pc' = "fetch")
    /\ SF_vars(HandlerReturn /\ pc' = "dispatch")

\* the monitoring task is scheduled again and again, whatever the server and
\* the handler answer
FairTrace == SpecTrace /\ WF_vars(Program)

\* ---------------------------------------------------------- the claims
\* ids handed to the handler with the mailbox unchanged since
Delivered == {i \in Ids : handledAt[i] > 0 /\ handledAt[i] = Len(mailbox)}

\* the search of the cycle returned OK
SearchSucceeded == searchIds # NoSearch

\* C1: the watermark never decreases, whatever fails, while the wall clock
\* does not go back
C1_WatermarkMonotonic == [][last_check_time' >= last_check_time]_vars

C1_Witness ==
    /\ ret = "list"
    /\ SearchSucceeded
    /\ wmStart > 0
    /\ last_check_time > wmStart

\* C2: an email that was handed to the handler is not returned by a later
\* poll while the mailbox is unchanged
C2_NoDuplicateDelivery ==
    ret = "list" => \A k \in 1..Len(retList) : retList[k].id \notin Delivered

\* C3: every message that arrives, and whose fetch and parse never fail, is
\* eventually handed to the handler
C3_AtLeastOnce ==
    \A i \in Ids :
        [](Len(mailbox) >= i =>
              <>(\/ handledAt[i] > 0
                 \/ i \in failedPrev
                 \/ (Len(mailbox) >= i /\ ~mailbox[i].dateOK)))

\* C4: an id whose fetch failed in a cycle that completed is returned by no
\* later poll
C4_FailedNeverRetried ==
    ret = "list" => \A k \in 1..Len(retList) : retList[k].id \notin failedPrev

\* C5: with a sender filter F, no returned email has a from_email other
\* than F
C5_SenderFilter ==
    (ret = "list" /\ sender_email # None) =>
        \A k \in 1..Len(retList) : retList[k].from_email = sender_email

\* the ids a poll has to keep: fetch OK, date parsed, date after the watermark
\* the cycle started with
C6_Keep(i) == i \in okIds /\ mailbox[i].dateOK /\ mailbox[i].date > wmStart

\* C6: after a successful search the poll returns exactly the ids of the
\* search result, in its order, whose fetch was OK, whose date parsed and is
\* later than the watermark the cycle started with
C6_PollResult ==
    (ret = "list" /\ SearchSucceeded) =>
        /\ IdsOf(retList) = SelectSeq(searchIds, C6_Keep)
        /\ \A k \in 1..Len(retList) : retList[k] = EmailInfo(retList[k].id)

C6_Witness ==
    /\ ret = "list"
    /\ Len(searchIds) = 2
    /\ searchIds[1] \notin okIds
    /\ Len(retList) = 1

\* C7: no exception escapes check_new_emails, whatever call fails
C7_NeverRaises == ret # "raised"

C7_Witness ==
    /\ ret = "list"
    /\ selLog # <<>>
    /\ selLog[Len(selLog)] = "other"

\* C8: a poll that ends before its per-message loop returns the empty list
\* and leaves the watermark as it was when the cycle started
C8_FailureLeavesWatermark ==
    (ret = "list" /\ ~SearchSucceeded) =>
        /\ retList = <<>>
        /\ last_check_time = wmStart

C8_Witness ==
    /\ ret = "list"
    /\ searchSent
    /\ ~SearchSucceeded
    /\ now > wmStart

\* the select failed and the select retried after the reconnect failed too
SecondSelectFailed == Len(selLog) >= 2 /\ selLog[2] # "OK"

\* C9: when the select fails and the retried select fails too, no search is
\* sent, the poll returns the empty list and the watermark is untouched
C9_SecondSelectFailurePropagates ==
    SecondSelectFailed =>
        /\ ~searchSent
        /\ (ret # "none" =>
               ret = "list" /\ retList = <<>> /\ last_check_time = wmStart)

\* C10: a poll whose search succeeded ends by returning its list with the
\* watermark set to the wall clock of that moment, whatever it found
C10_UnconditionalAdvance ==
    [][(SearchSucceeded /\ ret = "none" /\ ret' # "none") =>
          (ret' = "list" /\ last_check_time' = now)]_vars

C10_Witness ==
    /\ ret = "list"
    /\ SearchSucceeded
    /\ searchIds # <<>>
    /\ okIds = {}
    /\ retList = <<>>
    /\ last_check_time > wmStart

\* every attempt of the latest call of connect failed and none is left
ConnectExhausted ==
    /\ Len(connTrace) = RetryCount
    /\ \A k \in 1..Len(connTrace) : connTrace[k].o # "login_OK"

\* C11: when all attempts of connect fail, connect returns failure without
\* raising (the poll returns the empty list) and no session handle is held
C11_ExhaustedLeavesDisconnected ==
    ConnectExhausted =>
        /\ ret = "list"
        /\ retList = <<>>
        /\ imap = None

\* C12: connect makes at most retry_count attempts, an attempt whose login
\* is OK is the last one and connect returns to its caller with it, and a
\* failed attempt number k is followed by a sleep of 5*k seconds when another
\* attempt remains and by no sleep when it is the last, whatever failed
C12_RetrySchedule ==
    /\ Len(connTrace) <= RetryCount
    /\ \A k \in 1..Len(connTrace) :
          /\ connTrace[k].o = "login_OK" =>
                 k = Len(connTrace) /\ pc \in {"select1", "select2", "select3"}
          /\ connTrace[k].slept =
                 IF connTrace[k].o # "login_OK" /\ k < RetryCount THEN 5 * k ELSE 0

C12_Witness ==
    /\ pc = "dispatch"
    /\ Len(connTrace) = RetryCount
    /\ connTrace[1].o = "login_NO"
    /\ connTrace[2].o = "ctor_conn"
    /\ connTrace[3].o = "login_other"

\* the liveness probe of the cycle was sent on a connected session and
\* failed: it raised an error of the connection family or returned not OK
ProbeFailedOnConnected ==
    /\ probe.h \in {"AUTH", "SELECTED"}
    /\ probe.o \in {"NO", "conn"}

\* C13: after a failed probe on a connected session ensure_connection goes
\* on to connect by itself, calls connect with no handle held (the session
\* passed through Disconnected), and an attempt whose login is OK leaves the
\* session connected and ensure_connection returns success
C13_ReconnectOnProbeFailure ==
    ProbeFailedOnConnected =>
        /\ pc \in {"connect", "backoff", "select1"} \/ ConnectExhausted
        /\ (pc = "connect" /\ connTrace = <<>>) => imap = None
        /\ (connTrace # <<>> /\ connTrace[Len(connTrace)].o = "login_OK") =>
               (imap = "AUTH" /\ pc = "select1")

\* C14: the handler is invoked for the emails of the polled list in the
\* order of the list, one invocation starts only when the one before it has
\* ended, and when the cycle is over every email of the list was invoked
C14_DispatchOrder ==
    /\ Len(dispatched) <= Len(polled)
    /\ \A k \in 1..Len(dispatched) :
          /\ dispatched[k].id = polled[k]
          /\ k < Len(dispatched) => dispatched[k].end # "none"
    /\ pc = "sleep" => Len(dispatched) = Len(polled)

\* C15: when the handler raises for an email, the emails after it in the
\* list are still to be dispatched in this cycle, and the watermark is as
\* it was
C15_HandlerFailureIsolated ==
    [][(/\ pc = "handling"
        /\ dispatched # <<>>
        /\ dispatched'[Len(dispatched)].end = "raised")
          => (/\ result' = Tail(result)
              /\ last_check_time' = last_check_time)]_vars

\* C16: an exception raised in a cycle, by the poll or by the handler, takes
\* the loop to its interval sleep and not to its end, and the loop starts
\* another poll again and again
C16_LoopNeverTerminates ==
    /\ [][(pc = "handling" /\ pc' \notin {"handling", "dispatch"}) =>
              (/\ pc' = "sleep"
               /\ \E d \in DiscOut : imap' = Disconnect(imap, d).imap)]_vars
    /\ [][(ret # "raised" /\ ret' = "raised") => pc' = "sleep"]_vars
    /\ []<>(pc = "ensure")

C16_Witness ==
    /\ pc = "sleep"
    /\ dispatched # <<>>
    /\ dispatched[Len(dispatched)].end = "raised"
    /\ imap \notin {None, "SELECTED"}

\* C17: the monitoring task is cancelled only in the interval sleep of the
\* loop, when its cycle is over
C17_CancelOnlyInSleep == pc = "cancelled" => cancelledAt = "sleep"

\* the handler invocations of the cycle that have not ended
InProgress == {k \in 1..Len(dispatched) : dispatched[k].end = "none"}

\* C18: a poll starts only out of the interval sleep and with no handler
\* invocation of the cycle before it still running; at most one invocation
\* runs at a time, and none while a poll runs
C18_SynchronousBackpressure ==
    /\ [][(pc # "ensure" /\ pc' = "ensure") => (pc = "sleep" /\ InProgress = {})]_vars
    /\ [](Cardinality(InProgress) <= 1 /\ (InProgress # {} => pc = "handling"))

C18_Witness ==
    /\ pc = "sleep"
    /\ Len(dispatched) = 2
    /\ dispatched[1].end = "ok"
    /\ dispatched[2].end = "raised"

\* the monitoring task is inside a call of the mail server: the call it is
\* about to return from is the probe, connect and login, select, search or
\* fetch
InServerCall ==
    \/ pc \in {"connect", "select1", "select2", "select3", "search"}
    \/ pc = "ensure" /\ imap # None
    \/ pc = "fetch" /\ email_ids # <<>>

\* C19: while the monitoring task is inside a mail-server call, the chat
\* polling task can take a step
C19_ServerCallsDoNotBlock ==
    (InServerCall /\ mainPc = "gather" /\ chat # "failed") => ChatCanStep

\* C20: no task other than the monitoring task operates on the session
\* while the monitoring task is alive
C20_SingleOwner == shutdownAt \in {"none", "idle", "cancelled", "dead"}

\* the attempts of the call that sent the formatted text
FormattedSends == SelectSeq(sendResult.attempts, LAMBDA a : a.how = "html")

\* C21: Destination isolation: one call of send_to_groups makes the formatted
\* send for every configured destination, in the configured order, whatever
\* the sends and fallback sends of the earlier destinations did, makes a
\* fallback send exactly for the destinations whose formatted send failed,
\* and returns without raising.
C21_DestinationIsolation ==
    sendResult.called =>
        /\ sendResult.raised = "none"
        /\ Len(FormattedSends) = Len(sendOutcomes)
        /\ \A k \in 1..Len(FormattedSends) : FormattedSends[k].dest = k
        /\ \A k \in 1..(Len(sendResult.attempts) - 1) :
              sendResult.attempts[k].dest <= sendResult.attempts[k + 1].dest
        /\ \A k \in 1..Len(sendOutcomes) :
              (sendOutcomes[k].primary = "error")
                 <=> (\E j \in 1..Len(sendResult.attempts) :
                         sendResult.attempts[j] = [dest |-> k, how |-> "plain"])

\* both sends of the first destination failed and a later one was served
C21_Witness ==
    /\ sendResult.called
    /\ Len(sendOutcomes) = MaxGroups
    /\ sendOutcomes[1] = [primary |-> "error", fallback |-> "error"]
    /\ sendOutcomes[2] = [primary |-> "error", fallback |-> "ok"]
    /\ sendResult.attempts[Len(sendResult.attempts)].dest = MaxGroups
    /\ sendResult.success_count >= 1

\* C22: Session marked for reconnection: whenever check_new_emails returns
\* the empty list from one of its except clauses (an error was raised during
\* the cycle), the session holds no handle, so that the next cycle's
\* ensure_connection connects anew.
C22_ErrorClearsHandle == pollError => imap = None

\* C27: After disconnect() returns the handle is cleared in every case: the
\* steps that end with a returned disconnect (the reconnects of
\* ensure_connection and of the select path, which go on to connect, and the
\* except clause of the loop, which goes on to sleep) leave no handle.
C27_DisconnectClearsHandle ==
    [][(\/ pc = "ensure" /\ imap # None /\ pc' = "connect"
        \/ pc \in {"select1", "select2"} /\ pc' = "connect"
        \/ pc = "handling" /\ pc' = "sleep")
       => imap' = None]_vars

\* C28: Whenever ensure_connection returns success (the cycle goes on to
\* its first select), the handle is one on which login succeeded.
C28_ConnectedMeansLoggedIn ==
    (pc = "select1" /\ selLog = <<>>) => imap \in {"AUTH", "SELECTED"}

\* C23: Watermark frame: last_check_time is changed by no step other than
\* the one that ends the message loop of check_new_emails after the last id
\* of the search result was processed (not by connect, ensure_connection,
\* disconnect, the selects, the search, the handler dispatch or the sleep),
\* so while the messages of a cycle are compared the watermark is the cycle's
\* initial one.
C23_WatermarkFrame ==
    /\ [][last_check_time' # last_check_time
             => (pc = "fetch" /\ email_ids = <<>> /\ pc' = "dispatch")]_vars
    /\ [](pc = "fetch" => last_check_time = wmStart)

\* a cycle processed two ids and then moved the watermark
C23_Witness ==
    /\ ret = "list"
    /\ SearchSucceeded
    /\ Len(searchIds) >= 2
    /\ last_check_time > wmStart

\* C24: ensure_connection on a healthy session has no effect: when a handle
\* is held and the probe returns OK, ensure_connection returns success (the
\* cycle goes on to its first select) with the handle it probed and without
\* any connect attempt; when no handle is held it calls connect, and what
\* that call returns is what ensure_connection returns (the cycle goes on to
\* the first select on the logged-in handle, or returns the empty list).
C24_HealthyProbeNoEffect ==
    /\ [](probe.o = "OK" => (pc = "select1" /\ imap = probe.h /\ connTrace = <<>>))
    /\ [][(pc = "ensure" /\ imap = None /\ pc' # "ensure")
            => (pc' = "connect" /\ connRet' = "ensure" /\ attempt' = 0 /\ imap' = None)]_vars
    /\ [][(pc \in {"connect", "backoff"} /\ connRet = "ensure"
            /\ pc' \notin {"connect", "backoff"})
            => \/ pc' = "select1" /\ imap' = "AUTH"
               \/ pc' = "dispatch" /\ ret' = "list" /\ retList' = <<>>]_vars

\* the session of an earlier cycle was probed and found healthy
C24_Witness ==
    /\ probe = [h |-> "SELECTED", o |-> "OK"]
    /\ pc = "select1"
    /\ imap = "SELECTED"

\* C25: disconnect never escalates: on whatever handle the session holds
\* and however close and logout end (they succeed, or raise a protocol error
\* or any other error), disconnect returns without raising, so the task is
\* never ended by it; with no handle it returns at once, whatever the server
\* would have answered.
C25_DisconnectNeverEscalates ==
    /\ pc # "dead"
    /\ \A d \in DiscOut :
          /\ Disconnect(imap, d).raised = "none"
          /\ imap = None => Disconnect(imap, d) = [imap |-> None, raised |-> "none"]

\* a disconnect whose logout raised has returned and the loop went on
C25_Witness ==
    /\ imap = "LOGOUT"
    /\ pc = "sleep"

\* the parts of the message that are of content type t, in their order
PartsOfType(t) == SelectSeq(msgParts, LAMBDA q : q.type = t)

\* C26: Body extraction priority: for a multipart message whose parts all
\* decode, get_email_body returns the (trimmed) content of the first
\* text/plain part if there is one, otherwise the (trimmed) tag-stripped
\* content of the first text/html part, otherwise the empty string.
C26_BodyPriority ==
    (bodyResult.called /\ \A k \in 1..Len(msgParts) : msgParts[k].decodable) =>
        bodyResult.text =
            IF PartsOfType("text/plain") # <<>>
            THEN Strip(PartsOfType("text/plain")[1].content)
            ELSE IF PartsOfType("text/html") # <<>>
                 THEN Strip(StripTags(PartsOfType("text/html")[1].content))
            ELSE <<>>

\* C29: Every call of check_new_emails is bounded: one cycle calls connect
\* at most twice (once from ensure_connection, once from the select-failure
\* path) and so makes at most 2 * 3 connection attempts.
C29_BoundedCycle ==
    /\ connects.calls <= 2
    /\ connects.attempts <= 2 * RetryCount

\* C30: In the composed program handle_new_email never raises to the
\* monitoring loop, so every email a poll returned has been passed to it, in
\* the order of the list, when the cycle goes to sleep; and emails_processed
\* grows by one exactly in the steps in which a handler invocation ends after
\* formatting and send_to_groups both returned, and never changes otherwise.
C30_HandlerContainsFailures ==
    /\ [](pc # "dead" /\ \A k \in 1..Len(dispatched) : dispatched[k].end # "raised")
    /\ [](pc = "sleep" =>
            /\ Len(dispatched) = Len(polled)
            /\ \A k \in 1..Len(polled) : dispatched[k].id = polled[k])
    /\ [][emails_processed' =
            IF pc = "handling" /\ pc' # "handling"
               /\ dispatched'[Len(dispatched')].end = "ok"
            THEN emails_processed + 1
            ELSE emails_processed]_vars

\* of two emails of one poll the first failed inside the handler and the
\* second was sent and counted
C30_Witness ==
    /\ pc = "sleep"
    /\ Len(polled) = 2
    /\ Len(dispatched) = 2
    /\ dispatched[1].end = "failed"
    /\ dispatched[2].end = "ok"
    /\ emails_processed = 1

====
